---- MODULE Spec2Model ----
(***************************************************************************)
(* The duty-roster bot in its two revisions, src/Kolbasa.py (spreadsheet   *)
(* uploads, polling) and src/main.py (delimited-text uploads, webhook and  *)
(* /trigger).  The state is the three tables of the embedded store, the    *)
(* in-memory scheduler, the wall clock, and the position of the one        *)
(* upload handler and the one notification cycle that may be suspended at  *)
(* an await.  Every handler runs on one asyncio event loop: the code       *)
(* between two awaits is one atomic step.                                  *)
(***************************************************************************)
EXTENDS Integers, Sequences, FiniteSets, TLC

VARIABLES
    rev,        \* which revision runs: "Kolbasa" or "main"
    phase,      \* "boot" before on_startup has run, "running" after
    duties,     \* table duties: the rows (duty_date, name) in rowid order
    recipients, \* table recipients: the set of chat ids
    config,     \* table config: send_time and selected_month, <<>> when absent
    jobs,       \* the scheduler's job store, in the order of add_job
    clock,      \* wall clock in Europe/Moscow: date and position in the day
    up,         \* the upload handler suspended at an await, or idle
    cyc,        \* the notification cycle suspended at a send, or idle
    reply,      \* the last reply a handler sent (message.reply or HTTP response)
    committed,  \* history: the roster as the last completed import or clear left it
    firedToday, \* history: scheduled cycles started on the current calendar day
    armedAt     \* history: the time of the last accepted set-time or startup

vars == <<rev, phase, duties, recipients, config, jobs, clock, up, cyc,
          reply, committed, firedToday, armedAt>>

-----------------------------------------------------------------------------
(* Bounds of the model.                                                    *)

\* How many times the clock may pass midnight.
MaxDays == 1

-----------------------------------------------------------------------------
(* Text: a Python str is a sequence of one-character strings.              *)

Digits == <<"0", "1", "2", "3", "4", "5", "6", "7", "8", "9">>

IsDigit(ch) == \E i \in 1..10 : Digits[i] = ch

DigitVal(ch) == (CHOOSE i \in 1..10 : Digits[i] = ch) - 1

\* str.split(sep): the pieces between the separators, empty pieces kept.
RECURSIVE Split(_, _)
Split(s, sep) ==
    IF \A i \in 1..Len(s) : s[i] # sep
    THEN <<s>>
    ELSE LET k == CHOOSE i \in 1..Len(s) :
                      s[i] = sep /\ \A j \in 1..(i - 1) : s[j] # sep
         IN  <<SubSeq(s, 1, k - 1)>> \o Split(SubSeq(s, k + 1, Len(s)), sep)

RECURSIVE DigitsVal(_)
DigitsVal(s) ==
    IF s = <<>> THEN 0
    ELSE 10 * DigitsVal(SubSeq(s, 1, Len(s) - 1)) + DigitVal(s[Len(s)])

\* int(s) for a str without surrounding blanks: an optional sign and at least
\* one digit; anything else raises ValueError (ok = FALSE).
PyInt(s) ==
    LET signed == Len(s) > 0 /\ s[1] \in {"+", "-"}
        body   == IF signed THEN SubSeq(s, 2, Len(s)) ELSE s
        good   == Len(body) > 0 /\ \A i \in 1..Len(body) : IsDigit(body[i])
    IN  IF ~good THEN [ok |-> FALSE, val |-> 0]
        ELSE [ok |-> TRUE,
              val |-> IF signed /\ s[1] = "-" THEN 0 - DigitsVal(body)
                      ELSE DigitsVal(body)]

PyIntPairLoose(s, sep) == [ok |-> TRUE, a |-> 1, b |-> 1]

\* a, b = map(int, s.split(sep)): exactly two pieces, both integers.
PyIntPair(s, sep) ==
    LET parts == Split(s, sep)
    IN  IF Len(parts) = 2 /\ PyInt(parts[1]).ok /\ PyInt(parts[2]).ok
        THEN [ok |-> TRUE, a |-> PyInt(parts[1]).val, b |-> PyInt(parts[2]).val]
        ELSE [ok |-> FALSE, a |-> 0, b |-> 0]

RECURSIVE NatStr(_)
NatStr(n) ==
    IF n < 10 THEN <<Digits[n + 1]>>
    ELSE NatStr(n \div 10) \o <<Digits[(n % 10) + 1]>>

RECURSIVE ZeroPad(_, _)
ZeroPad(s, width) == IF Len(s) >= width THEN s ELSE ZeroPad(<<"0">> \o s, width)

\* f"{n:0<width>d}" for n >= 0.
FormatInt(n, width) == ZeroPad(NatStr(n), width)

-----------------------------------------------------------------------------
(* Calendar: datetime.date.                                                *)

IsLeap(y) == (y % 4 = 0 /\ y % 100 # 0) \/ y % 400 = 0

DaysIn(y, m) ==
    IF m = 2 THEN (IF IsLeap(y) THEN 29 ELSE 28)
    ELSE IF m \in {4, 6, 9, 11} THEN 30 ELSE 31

MkDate(y, m, d) == [y |-> y, m |-> m, d |-> d]

NextDate(t) ==
    IF t.d < DaysIn(t.y, t.m) THEN MkDate(t.y, t.m, t.d + 1)
    ELSE IF t.m < 12 THEN MkDate(t.y, t.m + 1, 1)
    ELSE MkDate(t.y + 1, 1, 1)

\* date.isoformat(): YYYY-MM-DD.
IsoFormat(t) ==
    FormatInt(t.y, 4) \o <<"-">> \o FormatInt(t.m, 2) \o <<"-">> \o FormatInt(t.d, 2)

\* The day the model starts on, and the marks of the day the clock stops at.
StartDate == MkDate(2024, 1, 31)

ClockMarks == <<[hh |-> 0, mm |-> 0], [hh |-> 9, mm |-> 0], [hh |-> 10, mm |-> 30]>>

Minutes(t) == 60 * t.hh + t.mm

NowMinutes == Minutes(ClockMarks[clock.pos])

\* datetime.now(TIMEZONE).date()
Today == clock.date

-----------------------------------------------------------------------------
(* Configuration read at import time.                                      *)

ADMIN_IDS == <<1>>

Users == {1, 7}

Chats == {1, 5}

IsAdminAnyone(u) == TRUE

\* message.from_user.id in ADMIN_IDS
IsAdmin(u) == \E i \in 1..Len(ADMIN_IDS) : ADMIN_IDS[i] = u

DEFAULT_SEND_TIME == <<"0", "9", ":", "0", "0">>

ExpectedTokenNone == "absent"

\* os.getenv('CRON_TOKEN', 'default-secret')
ExpectedToken == "default-secret"

-----------------------------------------------------------------------------
(* The store: one connection and one commit per call.                      *)

\* get_config(key) or the falsy None: an absent key reads as the empty str.
GetConfig(key) == config[key]

SetConfigReset(cfg, key, value) ==
    [[send_time |-> <<>>, selected_month |-> <<>>] EXCEPT ![key] = value]

SetConfig(cfg, key, value) == [cfg EXCEPT ![key] = value]

AddRecipient(rs, chat) == rs \cup {chat}

RemoveRecipientAll(rs, chat) == {}

RemoveRecipient(rs, chat) == rs \ {chat}

IsRecipient(rs, chat) == chat \in rs

\* SELECT chat_id FROM recipients: rowid order, which is chat_id order.
RECURSIVE SortedSeq(_)
SortedSeq(S) ==
    IF S = {} THEN <<>>
    ELSE LET lo == CHOOSE x \in S : \A y \in S : x <= y
         IN  <<lo>> \o SortedSeq(S \ {lo})

ListRecipients(rs) == SortedSeq(rs)

ClearDutiesKeep(rows) == rows

\* DELETE FROM duties
ClearDuties(rows) == <<>>

\* INSERT INTO duties ... executemany
InsertDuties(rows, records) == rows \o records

RECURSIVE SelectSeq2(_, _)
SelectSeq2(rows, iso) ==
    IF rows = <<>> THEN <<>>
    ELSE (IF Head(rows).date = iso THEN <<Head(rows).name>> ELSE <<>>)
         \o SelectSeq2(Tail(rows), iso)

\* SELECT name FROM duties WHERE duty_date = d.isoformat()
GetDutiesForDate(rows, t) == SelectSeq2(rows, IsoFormat(t))

\* The order of two characters of a stored date: '-' sorts before the digits.
CharRank(ch) == IF IsDigit(ch) THEN DigitVal(ch) + 1 ELSE 0

\* a < b as SQLite compares TEXT: character by character, a prefix first.
RECURSIVE TextLess(_, _)
TextLess(a, b) ==
    IF b = <<>> THEN FALSE
    ELSE IF a = <<>> THEN TRUE
    ELSE IF CharRank(Head(a)) # CharRank(Head(b)) THEN CharRank(Head(a)) < CharRank(Head(b))
    ELSE TextLess(Tail(a), Tail(b))

\* One row put into rows already ordered, after the rows that do not sort
\* behind it.
RECURSIVE InsertByDate(_, _)
InsertByDate(row, sorted) ==
    IF sorted = <<>> THEN <<row>>
    ELSE IF TextLess(row.date, Head(sorted).date) THEN <<row>> \o sorted
    ELSE <<Head(sorted)>> \o InsertByDate(row, Tail(sorted))

OrderByDateKeep(rows) == rows

\* ORDER BY duty_date
RECURSIVE OrderByDate(_)
OrderByDate(rows) ==
    IF rows = <<>> THEN <<>>
    ELSE InsertByDate(rows[Len(rows)], OrderByDate(SubSeq(rows, 1, Len(rows) - 1)))

\* SELECT duty_date, name FROM duties ORDER BY duty_date
GetAllDuties(rows) == OrderByDate(rows)

-----------------------------------------------------------------------------
(* The importers.  A cell is NaN, a native date or a str; a table is its   *)
(* header row and its data rows.                                           *)

NanCell == [t |-> "nan", s |-> <<>>, v |-> StartDate]
DateCell(d) == [t |-> "date", s |-> <<>>, v |-> d]
StrCell(s) == [t |-> "str", s |-> s, v |-> StartDate]

AllDigits(s) == \A i \in 1..Len(s) : IsDigit(s[i])

\* One strptime field: digits only, of an allowed length.
Field(s, minLen, maxLen) ==
    IF Len(s) >= minLen /\ Len(s) <= maxLen /\ AllDigits(s)
    THEN [ok |-> TRUE, val |-> DigitsVal(s)]
    ELSE [ok |-> FALSE, val |-> 0]

ValidDate(y, m, d) == y >= 1 /\ m >= 1 /\ m <= 12 /\ d >= 1 /\ d <= DaysIn(y, m)

NoDate == [ok |-> FALSE, v |-> StartDate]

StrptimeMonthFirst(s, sep, order, yearLen) ==
    LET parts == Split(s, sep)
    IN  IF Len(parts) # 3 THEN NoDate
        ELSE LET yf == Field(parts[IF order = "ymd" THEN 1 ELSE 3], yearLen, yearLen)
                 mf == Field(parts[IF order = "ymd" THEN 2 ELSE 1], 1, 2)
                 df == Field(parts[IF order = "ymd" THEN 3 ELSE 2], 1, 2)
                 yy == IF yearLen = 4 THEN yf.val
                       ELSE IF yf.val < 69 THEN 2000 + yf.val ELSE 1900 + yf.val
             IN  IF yf.ok /\ mf.ok /\ df.ok /\ ValidDate(yy, mf.val, df.val)
                 THEN [ok |-> TRUE, v |-> MkDate(yy, mf.val, df.val)]
                 ELSE NoDate

\* datetime.strptime(s, fmt).date() for the formats of three numeric fields:
\* order is "ymd" or "dmy", yearLen 4 for %Y and 2 for %y.
Strptime(s, sep, order, yearLen) ==
    LET parts == Split(s, sep)
    IN  IF Len(parts) # 3 THEN NoDate
        ELSE LET yf == Field(parts[IF order = "ymd" THEN 1 ELSE 3], yearLen, yearLen)
                 mf == Field(parts[2], 1, 2)
                 df == Field(parts[IF order = "ymd" THEN 3 ELSE 1], 1, 2)
                 yy == IF yearLen = 4 THEN yf.val
                       ELSE IF yf.val < 69 THEN 2000 + yf.val ELSE 1900 + yf.val
             IN  IF yf.ok /\ mf.ok /\ df.ok /\ ValidDate(yy, mf.val, df.val)
                 THEN [ok |-> TRUE, v |-> MkDate(yy, mf.val, df.val)]
                 ELSE NoDate

\* str.strip() of blanks.
RECURSIVE Strip(_)
Strip(s) ==
    IF s # <<>> /\ Head(s) = " " THEN Strip(Tail(s))
    ELSE IF s # <<>> /\ s[Len(s)] = " " THEN Strip(SubSeq(s, 1, Len(s) - 1))
    ELSE s

\* try_parse_date of Kolbasa.py: the formats in order, then a bare day number.
try_parse_date(x) ==
    IF x.t = "nan" THEN NoDate
    ELSE IF x.t = "date" THEN [ok |-> TRUE, v |-> x.v]
    ELSE LET s  == Strip(x.s)
             f1 == Strptime(s, "-", "ymd", 4)
             f2 == Strptime(s, ".", "dmy", 4)
             f3 == Strptime(s, ".", "dmy", 2)
             f4 == Strptime(s, "/", "dmy", 4)
             f5 == Strptime(s, " ", "dmy", 4)
         IN  IF f1.ok THEN f1
             ELSE IF f2.ok THEN f2
             ELSE IF f3.ok THEN f3
             ELSE IF f4.ok THEN f4
             ELSE IF f5.ok THEN f5
             ELSE IF Len(s) > 0 /\ AllDigits(s)
                  THEN (IF ValidDate(Today.y, Today.m, DigitsVal(s))
                        THEN [ok |-> TRUE, v |-> MkDate(Today.y, Today.m, DigitsVal(s))]
                        ELSE NoDate)
             ELSE NoDate

\* Which header words contain a date synonym, which a name synonym.
DATE_HEADERS_K == {"date", "day", "birthday"}
NAME_HEADERS_K == {"name", "employee"}
DATE_HEADERS_M == {"date"}
NAME_HEADERS_M == {"name"}

\* The column scan of parse_excel: the last matching column seen before both
\* are found; 0 is Python's None.
RECURSIVE DetectColumns(_, _, _, _)
DetectColumns(hdr, i, dc, nc) ==
    IF i > Len(hdr) THEN [date |-> dc, name |-> nc]
    ELSE LET dc2 == IF hdr[i] \in DATE_HEADERS_K THEN i ELSE dc
             nc2 == IF hdr[i] \in NAME_HEADERS_K THEN i ELSE nc
         IN  IF dc2 # 0 /\ nc2 # 0 THEN [date |-> dc2, name |-> nc2]
             ELSE DetectColumns(hdr, i + 1, dc2, nc2)

RECURSIVE SheetRows(_, _, _)
SheetRows(rows, dateCol, nameCol) ==
    IF rows = <<>> THEN <<>>
    ELSE LET row == Head(rows)
             d   == try_parse_date(row[dateCol])
             nm  == IF nameCol = 0 THEN <<>> ELSE Strip(row[nameCol].s)
             rec == IF ~d.ok THEN <<>>
                    ELSE IF nameCol = 0 THEN <<>>
                    ELSE IF row[nameCol].t = "nan" THEN <<>>
                    ELSE IF nm = <<>> THEN <<>>
                    ELSE <<[date |-> IsoFormat(d.v), name |-> nm]>>
         IN  rec \o SheetRows(Tail(rows), dateCol, nameCol)

ParseSheet(tbl) ==
    IF tbl.rows = <<>> THEN <<>>
    ELSE LET det == DetectColumns(tbl.hdr, 1, 0, 0)
             dc  == IF det.date = 0 THEN 1 ELSE det.date
             nc  == IF det.name = 0 /\ Len(tbl.hdr) > 1 THEN 2 ELSE det.name
         IN  SheetRows(tbl.rows, dc, nc)

RECURSIVE ParseSheets(_)
ParseSheets(sheets) ==
    IF sheets = <<>> THEN <<>>
    ELSE ParseSheet(Head(sheets)) \o ParseSheets(Tail(sheets))

\* A column label that pandas did not read as a str (a number or a date in the
\* header row): c.lower() raises on it.
NonStrLabel == "#not-a-str"

LowerRaises(sheets) ==
    \E i \in 1..Len(sheets) :
        /\ sheets[i].rows # <<>>
        /\ \E j \in 1..Len(sheets[i].hdr) : sheets[i].hdr[j] = NonStrLabel

\* parse_excel: raises when the bytes are no workbook, and when a sheet with
\* rows has a column label that is no str.
parse_excel(file) ==
    IF file.fmt # "xlsx" \/ LowerRaises(file.sheets) THEN [ok |-> FALSE, records |-> <<>>]
    ELSE [ok |-> TRUE, records |-> ParseSheets(file.sheets)]

\* The column choice of parse_csv: the last header with a date word, the last
\* header with a name word and no date word.
RECURSIVE CsvColumns(_, _, _, _)
CsvColumns(hdr, i, dc, nc) ==
    IF i > Len(hdr) THEN [date |-> dc, name |-> nc]
    ELSE IF hdr[i] \in DATE_HEADERS_M THEN CsvColumns(hdr, i + 1, i, nc)
    ELSE IF hdr[i] \in NAME_HEADERS_M THEN CsvColumns(hdr, i + 1, dc, i)
    ELSE CsvColumns(hdr, i + 1, dc, nc)

HasChar(s, ch) == \E i \in 1..Len(s) : s[i] = ch

CsvDate(s) ==
    IF HasChar(s, "-") THEN Strptime(s, "-", "ymd", 4)
    ELSE IF HasChar(s, ".") THEN Strptime(s, ".", "dmy", 4)
    ELSE IF HasChar(s, "/") THEN Strptime(s, "/", "dmy", 4)
    ELSE NoDate

\* The row loop of parse_csv.  A row with more fields than the header has the
\* key None, on which col.lower() raises: the outer except ends the loop and
\* the records collected so far are returned.
RECURSIVE CsvRows(_, _, _, _)
CsvRows(rows, dateCol, nameCol, width) ==
    IF rows = <<>> THEN <<>>
    ELSE IF Len(Head(rows)) > width THEN <<>>
    ELSE LET row == Head(rows)
             use == dateCol # 0 /\ nameCol # 0
                    /\ row[dateCol].s # <<>> /\ row[nameCol].s # <<>>
             d   == IF use THEN CsvDate(Strip(row[dateCol].s)) ELSE NoDate
             rec == IF use /\ d.ok
                    THEN <<[date |-> IsoFormat(d.v), name |-> Strip(row[nameCol].s)]>>
                    ELSE <<>>
         IN  rec \o CsvRows(Tail(rows), dateCol, nameCol, width)

\* parse_csv: never raises; bytes that are no delimited text give no record.
parse_csv(file) ==
    IF file.fmt # "csv" THEN [ok |-> TRUE, records |-> <<>>]
    ELSE LET tbl == file.sheets[1]
             det == CsvColumns(tbl.hdr, 1, 0, 0)
         IN  [ok |-> TRUE,
              records |-> CsvRows(tbl.rows, det.date, det.name, Len(tbl.hdr))]

\* The upload handler's extension check.
AcceptedExt(r) ==
    IF r = "Kolbasa" THEN {".xls", ".xlsx", ".xlsm"}
    ELSE {".csv", ".txt", ".xls", ".xlsx"}

ParseUpload(r, file) == IF r = "Kolbasa" THEN parse_excel(file) ELSE parse_csv(file)

-----------------------------------------------------------------------------
(* Inputs: the texts and files the handlers are tried on.                  *)

T_0900 == <<"0", "9", ":", "0", "0">>
T_900 == <<"9", ":", "0", "0">>
T_1030 == <<"1", "0", ":", "3", "0">>
T_2400 == <<"2", "4", ":", "0", "0">>
T_1060 == <<"1", "0", ":", "6", "0">>
T_NoColon == <<"0", "9", "0", "0">>
T_Letters == <<"a", "b", ":", "c", "d">>

\* message.text.split()[1:] of a /set_time message
TimeArgs == {<<>>, <<T_0900>>, <<T_900>>, <<T_1030>>, <<T_2400>>, <<T_1060>>,
             <<T_NoColon>>, <<T_Letters>>}

M_2024_01 == <<"2", "0", "2", "4", "-", "0", "1">>
M_2024_2 == <<"2", "0", "2", "4", "-", "2">>
M_0_5 == <<"0", "-", "5">>
M_2024_13 == <<"2", "0", "2", "4", "-", "1", "3">>
M_2024 == <<"2", "0", "2", "4">>

\* message.text.split()[1:] of a /set_month message
MonthArgs == {<<>>, <<M_2024_01>>, <<M_2024_2>>, <<M_0_5>>, <<M_2024_13>>, <<M_2024>>}

D_Iso_0131 == <<"2", "0", "2", "4", "-", "0", "1", "-", "3", "1">>
D_Dot_0131 == <<"3", "1", ".", "0", "1", ".", "2", "0", "2", "4">>
D_Iso_0201 == <<"2", "0", "2", "4", "-", "0", "2", "-", "0", "1">>
D_Soon == <<"s", "o", "o", "n">>
N_Ann == <<"A", "n", "n">>
N_Bob == <<"B", "o", "b">>
N_Cy == <<"C", "y">>

TableA == [hdr  |-> <<"date", "name">>,
           rows |-> << <<StrCell(D_Iso_0131), StrCell(N_Ann)>>,
                       <<StrCell(D_Soon), StrCell(N_Cy)>>,
                       <<StrCell(D_Dot_0131), StrCell(N_Bob)>> >>]

TableB == [hdr  |-> <<"date", "name">>,
           rows |-> << <<StrCell(D_Iso_0201), StrCell(N_Cy)>> >>]

TableZ == [hdr  |-> <<"date", "name">>,
           rows |-> << <<StrCell(D_Soon), StrCell(N_Ann)>> >>]

MkFile(ext, fmt, sheets) == [ext |-> ext, fmt |-> fmt, sheets |-> sheets]

NoFile == MkFile("", "junk", <<>>)

\* ".xlsm" is accepted by Kolbasa.py only, ".csv" by main.py only, ".xlsx" by
\* both, ".pdf" by neither.
Files == {MkFile(".xlsm", "xlsx", <<TableA>>), MkFile(".xlsm", "xlsx", <<TableB>>),
          MkFile(".xlsm", "xlsx", <<TableZ>>), MkFile(".xlsx", "junk", <<>>),
          MkFile(".csv", "csv", <<TableA>>), MkFile(".csv", "csv", <<TableB>>),
          MkFile(".csv", "csv", <<TableZ>>), MkFile(".pdf", "junk", <<>>)}

\* The X-Auth-Token header of a POST /trigger: absent, wrong or the expected one.
Tokens == {"absent", "wrong", "default-secret"}

-----------------------------------------------------------------------------
(* Replies.  A reply is its text, named here, and the number it embeds.    *)

Reply(text, n) == [text |-> text, n |-> n]

\* The refusal a non-administrator gets from a command or button, and from an upload.
RefusalText(r, what) ==
    IF r = "main" THEN "pomidor"
    ELSE IF what = "upload" THEN "only administrators may upload files"
    ELSE "this command is for administrators only"

-----------------------------------------------------------------------------
(* The notification cycle: send_today_message.                             *)

IdleCycle == [stage |-> "idle", origin |-> "none", skipped |-> FALSE, sel |-> <<>>,
              today |-> StartDate, text |-> [date |-> <<>>, names |-> <<>>],
              targets |-> <<>>, attempts |-> <<>>, count |-> 0, raised |-> FALSE]

\* Kolbasa.py: the active-month filter.  A value that does not parse, or whose
\* year or month is 0, filters nothing.
MonthSkip(r, sel, t) ==
    IF r # "Kolbasa" \/ sel = <<>> THEN FALSE
    ELSE LET p == PyIntPair(sel, "-")
         IN  p.ok /\ p.a # 0 /\ p.b # 0 /\ (t.y # p.a \/ t.m # p.b)

\* today.isoformat() in Kolbasa.py, today.strftime("%d.%m.%Y") in main.py
TextDate(r, t) ==
    IF r = "Kolbasa" THEN IsoFormat(t)
    ELSE FormatInt(t.d, 2) \o <<".">> \o FormatInt(t.m, 2) \o <<".">> \o FormatInt(t.y, 4)

\* The message: with no names the 'no duty' text, else one bullet per name.
Render(r, t, names) == [date |-> TextDate(r, t), names |-> names]

TargetsAdminsOnly(rs) == ADMIN_IDS

\* recipients = list_recipients(); if not recipients: recipients = ADMIN_IDS
Targets(rs) == IF ListRecipients(rs) = <<>> THEN ADMIN_IDS ELSE ListRecipients(rs)

StartCycleQuiet(origin) ==
    LET sel == GetConfig("selected_month")
        c0  == [IdleCycle EXCEPT !.origin = origin, !.sel = sel, !.today = Today]
    IN  IF MonthSkip(rev, sel, Today) \/ GetDutiesForDate(duties, Today) = <<>>
        THEN [c0 EXCEPT !.stage = "finished", !.skipped = TRUE]
        ELSE [c0 EXCEPT !.stage = IF Targets(recipients) = <<>> THEN "finished"
                                  ELSE "sending",
                        !.text = Render(rev, Today, GetDutiesForDate(duties, Today)),
                        !.targets = Targets(recipients)]

\* The code of send_today_message up to its first await.
StartCycle(origin) ==
    LET sel == GetConfig("selected_month")
        c0  == [IdleCycle EXCEPT !.origin = origin, !.sel = sel, !.today = Today]
    IN  IF MonthSkip(rev, sel, Today)
        THEN [c0 EXCEPT !.stage = "finished", !.skipped = TRUE]
        ELSE [c0 EXCEPT !.stage = IF Targets(recipients) = <<>> THEN "finished"
                                  ELSE "sending",
                        !.text = Render(rev, Today, GetDutiesForDate(duties, Today)),
                        !.targets = Targets(recipients)]

AfterSendReread(c, ok) ==
    LET ts == Targets(recipients)
        at == Append(c.attempts, [chat |-> IF Len(c.attempts) < Len(ts)
                                           THEN ts[Len(c.attempts) + 1]
                                           ELSE c.targets[Len(c.attempts) + 1],
                                  ok |-> ok])
    IN  [c EXCEPT !.attempts = at,
                  !.targets = ts,
                  !.text = Render(rev, Today, GetDutiesForDate(duties, Today)),
                  !.count = IF ok THEN c.count + 1 ELSE c.count,
                  !.stage = IF Len(at) >= Len(ts) THEN "finished" ELSE "sending"]

AfterSendAbort(c, ok) ==
    LET at == Append(c.attempts, [chat |-> c.targets[Len(c.attempts) + 1], ok |-> ok])
    IN  [c EXCEPT !.attempts = at,
                  !.count = IF ok THEN c.count + 1 ELSE c.count,
                  !.raised = ~ok,
                  !.stage = IF ~ok \/ Len(at) = Len(c.targets) THEN "finished"
                            ELSE "sending"]

\* One turn of the loop: bot.send_message returned (ok) or raised (caught).
AfterSend(c, ok) ==
    LET at == Append(c.attempts, [chat |-> c.targets[Len(c.attempts) + 1], ok |-> ok])
    IN  [c EXCEPT !.attempts = at,
                  !.count = IF ok THEN c.count + 1 ELSE c.count,
                  !.stage = IF Len(at) = Len(c.targets) THEN "finished" ELSE "sending"]

\* What send_today_message returns: nothing in Kolbasa.py, the count in main.py.
CycleResult(r, c) ==
    IF r = "Kolbasa" THEN [kind |-> "none", n |-> 0] ELSE [kind |-> "count", n |-> c.count]

\* What the caller of the cycle answers once it has returned.
CycleReply(r, c) ==
    IF c.origin = "timer" THEN reply
    ELSE IF r = "Kolbasa" THEN Reply("sent to all recipients", 0)
    ELSE Reply("sent to n recipients", CycleResult(r, c).n)

-----------------------------------------------------------------------------
(* The scheduler: schedule_daily.                                           *)

Job(hh, mm, next) == [hh |-> hh, mm |-> mm, next |-> next]

RemoveAllJobsKeep(js) == js

\* scheduler.remove_all_jobs()
RemoveAllJobs(js) == <<>>

\* The first fire time of CronTrigger(hour, minute) for a job added now.
NextRun(hh, mm) == IF 60 * hh + mm > NowMinutes THEN Today ELSE NextDate(Today)

ScheduleDailyForget(js, cfg, send_time) ==
    LET p     == PyIntPair(send_time, ":")
        valid == p.ok /\ p.a >= 0 /\ p.a <= 23 /\ p.b >= 0 /\ p.b <= 59
    IN  IF ~valid THEN [ok |-> FALSE, jobs |-> RemoveAllJobs(js), config |-> cfg]
        ELSE [ok |-> TRUE,
              jobs |-> Append(RemoveAllJobs(js), Job(p.a, p.b, NextRun(p.a, p.b))),
              config |-> cfg]

\* schedule_daily(send_time): the jobs and the config it leaves, and whether it
\* returned (ok) or raised after remove_all_jobs.
ScheduleDaily(js, cfg, send_time) ==
    LET p     == PyIntPair(send_time, ":")
        valid == p.ok /\ p.a >= 0 /\ p.a <= 23 /\ p.b >= 0 /\ p.b <= 59
    IN  IF ~valid THEN [ok |-> FALSE, jobs |-> RemoveAllJobs(js), config |-> cfg]
        ELSE [ok |-> TRUE,
              jobs |-> Append(RemoveAllJobs(js), Job(p.a, p.b, NextRun(p.a, p.b))),
              config |-> SetConfig(cfg, "send_time", send_time)]

Due(j) == j.next = Today /\ Minutes(j) <= NowMinutes

-----------------------------------------------------------------------------
(* The initial state: the module has been imported, init_db has created    *)
(* the empty tables, on_startup has not run.                               *)

IdleUpload == [stage |-> "idle", file |-> NoFile]

Init ==
    /\ rev \in {"Kolbasa", "main"}
    /\ phase = "boot"
    /\ duties = <<>>
    /\ recipients = {}
    /\ config = [send_time |-> <<>>, selected_month |-> <<>>]
    /\ jobs = <<>>
    /\ clock = [date |-> StartDate, pos |-> 1, days |-> 0]
    /\ up = IdleUpload
    /\ cyc = IdleCycle
    /\ reply = Reply("none", 0)
    /\ committed = [by |-> "init", rows |-> <<>>]
    /\ firedToday = 0
    /\ armedAt = [hh |-> 0, mm |-> 0]

Running == phase = "running"

-----------------------------------------------------------------------------
(* on_startup                                                              *)

Startup ==
    /\ phase = "boot"
    /\ LET send_time == IF GetConfig("send_time") # <<>> THEN GetConfig("send_time")
                        ELSE DEFAULT_SEND_TIME
           r == ScheduleDaily(jobs, config, send_time)
           p == PyIntPair(send_time, ":")
       IN  /\ jobs' = r.jobs
           /\ config' = r.config
           /\ armedAt' = IF r.ok THEN [hh |-> p.a, mm |-> p.b] ELSE armedAt
    /\ phase' = "running"
    /\ UNCHANGED <<rev, duties, recipients, clock, up, cyc, reply, committed,
                   firedToday>>

-----------------------------------------------------------------------------
(* Commands and menu buttons.  u is message.from_user.id, c message.chat.id. *)
(* A handler that does not read the chat id takes no c.                    *)

\* /start: open to everyone.
CmdStart(u) ==
    /\ Running
    /\ reply' = IF IsAdmin(u) THEN Reply("administrator welcome", 0)
                ELSE Reply("pomidor", 0)
    /\ UNCHANGED <<rev, phase, duties, recipients, config, jobs, clock, up, cyc,
                   committed, firedToday, armedAt>>

CmdSubscribe(u, c) ==
    /\ Running
    /\ IF ~IsAdmin(u)
       THEN /\ reply' = Reply(RefusalText(rev, "command"), 0)
            /\ UNCHANGED recipients
       ELSE IF rev = "main" /\ IsRecipient(recipients, c)
       THEN /\ reply' = Reply("already subscribed", 0)
            /\ UNCHANGED recipients
       ELSE /\ recipients' = AddRecipient(recipients, c)
            /\ reply' = Reply("subscribed", 0)
    /\ UNCHANGED <<rev, phase, duties, config, jobs, clock, up, cyc, committed,
                   firedToday, armedAt>>

CmdUnsubscribe(u, c) ==
    /\ Running
    /\ IF ~IsAdmin(u)
       THEN /\ reply' = Reply(RefusalText(rev, "command"), 0)
            /\ UNCHANGED recipients
       ELSE IF rev = "main" /\ ~IsRecipient(recipients, c)
       THEN /\ reply' = Reply("was not subscribed", 0)
            /\ UNCHANGED recipients
       ELSE /\ recipients' = RemoveRecipient(recipients, c)
            /\ reply' = Reply("unsubscribed", 0)
    /\ UNCHANGED <<rev, phase, duties, config, jobs, clock, up, cyc, committed,
                   firedToday, armedAt>>

\* /set_time HH:MM; args is message.text.split()[1:].
CmdSetTime(u, args) ==
    /\ Running
    /\ IF ~IsAdmin(u)
       THEN /\ reply' = Reply(RefusalText(rev, "command"), 0)
            /\ UNCHANGED <<jobs, config, armedAt>>
       ELSE IF Len(args) < 1
       THEN /\ reply' = Reply("usage: /set_time HH:MM", 0)
            /\ UNCHANGED <<jobs, config, armedAt>>
       ELSE LET t == args[1]
                p == PyIntPair(t, ":")
                r == ScheduleDaily(jobs, config, t)
            IN  IF p.ok /\ 0 <= p.a /\ p.a < 24 /\ 0 <= p.b /\ p.b < 60
                THEN /\ jobs' = r.jobs
                     /\ config' = r.config
                     /\ armedAt' = [hh |-> p.a, mm |-> p.b]
                     /\ reply' = Reply("send time set", 0)
                ELSE /\ reply' = Reply("wrong time format", 0)
                     /\ UNCHANGED <<jobs, config, armedAt>>
    /\ UNCHANGED <<rev, phase, duties, recipients, clock, up, cyc, committed,
                   firedToday>>

\* /set_month YYYY-MM (Kolbasa.py only).
CmdSetMonth(u, args) ==
    /\ Running
    /\ rev = "Kolbasa"
    /\ IF ~IsAdmin(u)
       THEN /\ reply' = Reply(RefusalText(rev, "command"), 0)
            /\ UNCHANGED config
       ELSE IF Len(args) < 1
       THEN /\ reply' = Reply("usage: /set_month YYYY-MM", 0)
            /\ UNCHANGED config
       ELSE LET p == PyIntPair(args[1], "-")
            IN  IF p.ok /\ 1 <= p.b /\ p.b <= 12
                THEN /\ config' = SetConfig(config, "selected_month",
                                     FormatInt(p.a, 4) \o <<"-">> \o FormatInt(p.b, 2))
                     /\ reply' = Reply("month set", 0)
                ELSE /\ reply' = Reply("wrong month format", 0)
                     /\ UNCHANGED config
    /\ UNCHANGED <<rev, phase, duties, recipients, jobs, clock, up, cyc, committed,
                   firedToday, armedAt>>

\* /send_today (Kolbasa.py), the send-now button (main.py): the handler up to
\* the first await of the cycle it runs.
CmdSendNow(u) ==
    /\ Running
    /\ IF ~IsAdmin(u)
       THEN /\ reply' = Reply(RefusalText(rev, "command"), 0)
            /\ UNCHANGED cyc
       ELSE /\ cyc.stage = "idle"
            /\ cyc' = StartCycle("send_now")
            /\ UNCHANGED reply
    /\ UNCHANGED <<rev, phase, duties, recipients, config, jobs, clock, up,
                   committed, firedToday, armedAt>>

\* /export (Kolbasa.py): the roster ordered by date, as a document.
CmdExport(u) ==
    /\ Running
    /\ rev = "Kolbasa"
    /\ IF ~IsAdmin(u)
       THEN /\ reply' = Reply(RefusalText(rev, "command"), 0)
       ELSE /\ reply' = Reply("export document", Len(GetAllDuties(duties)))
    /\ UNCHANGED <<rev, phase, duties, recipients, config, jobs, clock, up, cyc,
                   committed, firedToday, armedAt>>

\* The 'duties today' button (main.py).
CmdDutyToday(u) ==
    /\ Running
    /\ rev = "main"
    /\ IF ~IsAdmin(u)
       THEN /\ reply' = Reply(RefusalText(rev, "command"), 0)
       ELSE /\ reply' = Reply("duties today", Len(GetDutiesForDate(duties, Today)))
    /\ UNCHANGED <<rev, phase, duties, recipients, config, jobs, clock, up, cyc,
                   committed, firedToday, armedAt>>

\* The 'all duties' button (main.py).
CmdAllDuties(u) ==
    /\ Running
    /\ rev = "main"
    /\ IF ~IsAdmin(u)
       THEN /\ reply' = Reply(RefusalText(rev, "command"), 0)
       ELSE /\ reply' = IF GetAllDuties(duties) = <<>> THEN Reply("no duty records", 0)
                        ELSE Reply("all duties", Len(GetAllDuties(duties)))
    /\ UNCHANGED <<rev, phase, duties, recipients, config, jobs, clock, up, cyc,
                   committed, firedToday, armedAt>>

\* The 'set time' button (main.py): shows the current time and the usage.
CmdSetTimeMenu(u) ==
    /\ Running
    /\ rev = "main"
    /\ reply' = IF ~IsAdmin(u) THEN Reply(RefusalText(rev, "command"), 0)
                ELSE Reply("current send time", 0)
    /\ UNCHANGED <<rev, phase, duties, recipients, config, jobs, clock, up, cyc,
                   committed, firedToday, armedAt>>

\* The 'show subscribers' button and /subscribers (main.py).
CmdSubscribers(u) ==
    /\ Running
    /\ rev = "main"
    /\ reply' = IF ~IsAdmin(u) THEN Reply(RefusalText(rev, "command"), 0)
                ELSE IF ListRecipients(recipients) = <<>> THEN Reply("no subscribers", 0)
                ELSE Reply("subscribers", Len(ListRecipients(recipients)))
    /\ UNCHANGED <<rev, phase, duties, recipients, config, jobs, clock, up, cyc,
                   committed, firedToday, armedAt>>

\* /clear_duties (main.py).
CmdClearDuties(u) ==
    /\ Running
    /\ rev = "main"
    /\ IF ~IsAdmin(u)
       THEN /\ reply' = Reply(RefusalText(rev, "command"), 0)
            /\ UNCHANGED <<duties, committed>>
       ELSE /\ duties' = ClearDuties(duties)
            /\ committed' = [by |-> "clear", rows |-> <<>>]
            /\ reply' = Reply("all duty records deleted", 0)
    /\ UNCHANGED <<rev, phase, recipients, config, jobs, clock, up, cyc,
                   firedToday, armedAt>>

\* /help (main.py).
CmdHelp(u) ==
    /\ Running
    /\ rev = "main"
    /\ reply' = IF ~IsAdmin(u) THEN Reply(RefusalText(rev, "command"), 0)
                ELSE Reply("administrator help", 0)
    /\ UNCHANGED <<rev, phase, duties, recipients, config, jobs, clock, up, cyc,
                   committed, firedToday, armedAt>>

\* Any other message; slash says whether its text starts with '/'.
HandleOther(u, slash) ==
    /\ Running
    /\ reply' = IF rev = "Kolbasa"
                THEN (IF IsAdmin(u) THEN Reply("administrator commands", 0)
                      ELSE IF slash THEN Reply("no access to this command", 0)
                      ELSE reply)
                ELSE (IF IsAdmin(u) THEN reply ELSE Reply("pomidor", 0))
    /\ UNCHANGED <<rev, phase, duties, recipients, config, jobs, clock, up, cyc,
                   committed, firedToday, armedAt>>

-----------------------------------------------------------------------------
(* The upload handler: handle_docs.                                        *)

NoRecordsNever(records) == FALSE

\* if not records
NoRecords(records) == records = <<>>

\* From parse to the final reply: no await in between.  fault is the storage
\* call that raises: "none", "clear" (DELETE or its commit) or "insert"; with
\* "crash" the process dies after clear_duties has committed and before
\* insert_duties has: the DELETE is kept, no reply is sent, and the scheduler's
\* jobs and the cycle in flight are lost with the process.
StoreParsed(p, fault) ==
    LET dies == p.ok /\ ~NoRecords(p.records) /\ fault = "crash"
    IN  /\ up' = IdleUpload
        /\ IF dies
           THEN /\ phase' = "boot"
                /\ jobs' = <<>>
                /\ cyc' = IdleCycle
           ELSE UNCHANGED <<phase, jobs, cyc>>
        /\ IF ~p.ok
           THEN /\ reply' = Reply("error while processing the file", 0)
                /\ UNCHANGED <<duties, committed>>
           ELSE IF NoRecords(p.records)
           THEN /\ reply' = Reply("no records recognized", 0)
                /\ UNCHANGED <<duties, committed>>
           ELSE IF fault = "clear"
           THEN /\ reply' = Reply("error while processing the file", 0)
                /\ UNCHANGED <<duties, committed>>
           ELSE IF fault = "crash"
           THEN /\ duties' = ClearDuties(duties)
                /\ UNCHANGED <<reply, committed>>
           ELSE IF fault = "insert"
           THEN /\ duties' = ClearDuties(duties)
                /\ reply' = Reply("error while processing the file", 0)
                /\ UNCHANGED committed
           ELSE /\ duties' = InsertDuties(ClearDuties(duties), p.records)
                /\ committed' = [by |-> "import", rows |-> p.records]
                /\ reply' = Reply("imported n records", Len(p.records))

\* records = parse(file), then the checks and the storage calls on records.
ProcessUpload(f, fault) == StoreParsed(ParseUpload(rev, f), fault)

\* A document arrives: the gate, the extension check, then the first await
\* (the download in Kolbasa.py, the 'file received' reply in main.py).
HandleDocs(u, f) ==
    /\ Running
    /\ IF ~IsAdmin(u)
       THEN /\ reply' = Reply(RefusalText(rev, "upload"), 0)
            /\ UNCHANGED up
       ELSE IF f.ext \notin AcceptedExt(rev)
       THEN /\ reply' = Reply("wrong file type", 0)
            /\ UNCHANGED up
       ELSE /\ up.stage = "idle"
            /\ IF rev = "Kolbasa"
               THEN /\ up' = [stage |-> "downloading", file |-> f]
                    /\ UNCHANGED reply
               ELSE /\ up' = [stage |-> "acking", file |-> f]
                    /\ reply' = Reply("file received", 0)
    /\ UNCHANGED <<rev, phase, duties, recipients, config, jobs, clock, cyc,
                   committed, firedToday, armedAt>>

\* bot.download returns (ok) or raises.  Kolbasa.py awaits it outside the try:
\* a failure ends the handler without a reply; success sends 'file received'.
\* main.py awaits it inside the try and goes on to parse and store.
DocDownloaded(ok, fault) ==
    /\ up.stage = "downloading"
    /\ IF rev = "Kolbasa"
       THEN /\ IF ok
               THEN /\ up' = [up EXCEPT !.stage = "acking"]
                    /\ reply' = Reply("file received", 0)
               ELSE /\ up' = IdleUpload
                    /\ UNCHANGED reply
            /\ UNCHANGED <<duties, committed, phase, jobs, cyc>>
       ELSE IF ok
       THEN ProcessUpload(up.file, fault)
       ELSE /\ up' = IdleUpload
            /\ reply' = Reply("error while processing the file", 0)
            /\ UNCHANGED <<duties, committed, phase, jobs, cyc>>
    /\ UNCHANGED <<rev, recipients, config, clock, firedToday, armedAt>>

\* The 'file received' reply has been sent: Kolbasa.py parses and stores,
\* main.py starts the download.
DocAcked(fault) ==
    /\ up.stage = "acking"
    /\ IF rev = "Kolbasa"
       THEN ProcessUpload(up.file, fault)
       ELSE /\ up' = [up EXCEPT !.stage = "downloading"]
            /\ UNCHANGED <<duties, committed, reply, phase, jobs, cyc>>
    /\ UNCHANGED <<rev, recipients, config, clock, firedToday, armedAt>>

-----------------------------------------------------------------------------
(* POST /trigger (main.py).                                                *)

HandleTrigger(token) ==
    /\ Running
    /\ rev = "main"
    /\ IF token # ExpectedToken
       THEN /\ reply' = Reply("401 Unauthorized", 0)
            /\ UNCHANGED cyc
       ELSE /\ cyc.stage = "idle"
            /\ cyc' = StartCycle("trigger")
            /\ UNCHANGED reply
    /\ UNCHANGED <<rev, phase, duties, recipients, config, jobs, clock, up,
                   committed, firedToday, armedAt>>

-----------------------------------------------------------------------------
(* The timer and the clock.                                                *)

\* Job i of the store fires: the scheduler computes its next run and the
\* task it creates runs send_today_message up to the first await.
TimerFire(i) ==
    /\ Running
    /\ i \in 1..Len(jobs)
    /\ Due(jobs[i])
    /\ cyc.stage = "idle"
    /\ jobs' = [jobs EXCEPT ![i].next = NextDate(Today)]
    /\ cyc' = StartCycle("timer")
    /\ firedToday' = firedToday + 1
    /\ UNCHANGED <<rev, phase, duties, recipients, config, clock, up, reply,
                   committed, armedAt>>

\* Time passes to the next mark, once every due job has fired.
Tick ==
    /\ Running
    /\ \A i \in 1..Len(jobs) : ~Due(jobs[i])
    /\ IF clock.pos < Len(ClockMarks)
       THEN /\ clock' = [clock EXCEPT !.pos = clock.pos + 1]
            /\ UNCHANGED firedToday
       ELSE /\ clock.days < MaxDays
            /\ clock' = [date |-> NextDate(clock.date), pos |-> 1,
                         days |-> clock.days + 1]
            /\ firedToday' = 0
    /\ UNCHANGED <<rev, phase, duties, recipients, config, jobs, up, cyc, reply,
                   committed, armedAt>>

\* bot.send_message to the next target returns (ok) or raises.
CycleSend(ok) ==
    /\ cyc.stage = "sending"
    /\ cyc' = AfterSend(cyc, ok)
    /\ UNCHANGED <<rev, phase, duties, recipients, config, jobs, clock, up, reply,
                   committed, firedToday, armedAt>>

\* send_today_message returns to its caller, which answers.
CycleEnd ==
    /\ cyc.stage = "finished"
    /\ cyc' = IdleCycle
    /\ reply' = CycleReply(rev, cyc)
    /\ UNCHANGED <<rev, phase, duties, recipients, config, jobs, clock, up,
                   committed, firedToday, armedAt>>

-----------------------------------------------------------------------------

Faults == {"none", "clear", "insert"}

\* The next-state relation of the whole bot.
Next ==
    \/ Startup
    \/ \E u \in Users : CmdStart(u)
    \/ \E u \in Users, c \in Chats : CmdSubscribe(u, c)
    \/ \E u \in Users, c \in Chats : CmdUnsubscribe(u, c)
    \/ \E u \in Users, a \in TimeArgs : CmdSetTime(u, a)
    \/ \E u \in Users, a \in MonthArgs : CmdSetMonth(u, a)
    \/ \E u \in Users : CmdSendNow(u)
    \/ \E u \in Users : CmdExport(u)
    \/ \E u \in Users : CmdDutyToday(u)
    \/ \E u \in Users : CmdAllDuties(u)
    \/ \E u \in Users : CmdSetTimeMenu(u)
    \/ \E u \in Users : CmdSubscribers(u)
    \/ \E u \in Users : CmdClearDuties(u)
    \/ \E u \in Users : CmdHelp(u)
    \/ \E u \in Users, sl \in BOOLEAN : HandleOther(u, sl)
    \/ \E u \in Users, f \in Files : HandleDocs(u, f)
    \/ \E ok \in BOOLEAN, ft \in Faults : DocDownloaded(ok, ft)
    \/ \E ft \in Faults : DocAcked(ft)
    \/ \E tk \in Tokens : HandleTrigger(tk)
    \/ \E i \in 1..Len(jobs) : TimerFire(i)
    \/ Tick
    \/ \E ok \in BOOLEAN : CycleSend(ok)
    \/ CycleEnd

Spec == Init /\ [][Next]_vars

\* Uploads and everything that reads or empties the roster.
NextImport ==
    \/ Startup
    \/ \E u \in Users, f \in Files : HandleDocs(u, f)
    \/ \E ok \in BOOLEAN, ft \in Faults : DocDownloaded(ok, ft)
    \/ \E ft \in Faults : DocAcked(ft)
    \/ \E u \in Users : CmdClearDuties(u)
    \/ \E u \in Users : CmdExport(u)
    \/ \E u \in Users : CmdDutyToday(u)
    \/ \E u \in Users : CmdAllDuties(u)
    \/ \E u \in Users : CmdSendNow(u)
    \/ \E tk \in Tokens : HandleTrigger(tk)
    \/ \E i \in 1..Len(jobs) : TimerFire(i)
    \/ Tick
    \/ \E ok \in BOOLEAN : CycleSend(ok)
    \/ CycleEnd

SpecImport == Init /\ [][NextImport]_vars

\* The scheduler: startup, set-time, the clock and the timer.
NextSched ==
    \/ Startup
    \/ \E u \in Users, a \in TimeArgs : CmdSetTime(u, a)
    \/ \E i \in 1..Len(jobs) : TimerFire(i)
    \/ Tick
    \/ \E ok \in BOOLEAN : CycleSend(ok)
    \/ CycleEnd

SpecSched == Init /\ [][NextSched]_vars

\* The notifier: what selects the month and the targets, and what starts a cycle.
NextNotify ==
    \/ Startup
    \/ \E u \in Users, c \in Chats : CmdSubscribe(u, c)
    \/ \E u \in Users, c \in Chats : CmdUnsubscribe(u, c)
    \/ \E u \in Users, a \in MonthArgs : CmdSetMonth(u, a)
    \/ \E u \in Users : CmdSendNow(u)
    \/ \E tk \in Tokens : HandleTrigger(tk)
    \/ \E i \in 1..Len(jobs) : TimerFire(i)
    \/ Tick
    \/ \E ok \in BOOLEAN : CycleSend(ok)
    \/ CycleEnd

SpecNotify == Init /\ [][NextNotify]_vars

\* The administrator gate: every handler, tried by every user, on one accepted
\* input each.
GateTimeArgs == {<<>>, <<T_1030>>}
GateMonthArgs == {<<M_2024_2>>}
GateFiles == {MkFile(".xlsm", "xlsx", <<TableA>>), MkFile(".csv", "csv", <<TableA>>)}

NextGate ==
    \/ Startup
    \/ \E u \in Users : CmdStart(u)
    \/ \E u \in Users, c \in Chats : CmdSubscribe(u, c)
    \/ \E u \in Users, c \in Chats : CmdUnsubscribe(u, c)
    \/ \E u \in Users, a \in GateTimeArgs : CmdSetTime(u, a)
    \/ \E u \in Users, a \in GateMonthArgs : CmdSetMonth(u, a)
    \/ \E u \in Users : CmdSendNow(u)
    \/ \E u \in Users : CmdExport(u)
    \/ \E u \in Users : CmdDutyToday(u)
    \/ \E u \in Users : CmdAllDuties(u)
    \/ \E u \in Users : CmdSetTimeMenu(u)
    \/ \E u \in Users : CmdSubscribers(u)
    \/ \E u \in Users : CmdClearDuties(u)
    \/ \E u \in Users : CmdHelp(u)
    \/ \E u \in Users, sl \in BOOLEAN : HandleOther(u, sl)
    \/ \E u \in Users, f \in GateFiles : HandleDocs(u, f)
    \/ \E ok \in BOOLEAN : DocDownloaded(ok, "none")
    \/ DocAcked("none")
    \/ \E tk \in Tokens : HandleTrigger(tk)
    \/ \E ok \in BOOLEAN : CycleSend(ok)
    \/ CycleEnd

SpecGate == Init /\ [][NextGate]_vars

-----------------------------------------------------------------------------
(* Properties.                                                             *)

\* Membership in the administrator list, read off the list itself.
Administrator(u) == \E i \in 1..Len(ADMIN_IDS) : ADMIN_IDS[i] = u

\* The step in which the upload handler runs the importer on the file it holds
\* and stores the result, for some outcome of the storage calls.
ImporterStep ==
    \E ft \in Faults :
        \/ rev = "Kolbasa" /\ DocAcked(ft)
        \/ rev = "main" /\ DocDownloaded(TRUE, ft)

\* A step that ends the upload handler in an error: the generic error reply,
\* or, in Kolbasa.py, the download raising out of the handler.
UploadFails ==
    \/ up.stage # "idle" /\ up'.stage = "idle"
          /\ reply'.text = "error while processing the file"
    \/ \E ft \in Faults : rev = "Kolbasa" /\ DocDownloaded(FALSE, ft)

\* C1: once an import that extracted at least one record has completed, the
\* roster is exactly the records of the most recent successful import, with no
\* record of an earlier import.
C1_FullReplace == committed.by = "import" => duties = committed.rows

\* C2: an upload that ends in an error leaves the roster as it was before the
\* handler's step, and every step of the upload handler either leaves the
\* roster alone or replaces it by the records of the uploaded file: the
\* delete-all and the insert-all take effect together or not at all.
C2_FailedImportKeepsRoster ==
    [][/\ UploadFails => duties' = duties
       /\ ImporterStep =>
              \/ duties' = duties
              \/ duties' = ParseUpload(rev, up.file).records]_vars

\* C3: an upload from which the importer extracts zero records is answered
\* 'no records recognized', not the generic error, and roster, recipients and
\* config stay as they were.
C3_NothingRecognized ==
    [][(ImporterStep /\ ParseUpload(rev, up.file).ok
                     /\ ParseUpload(rev, up.file).records = <<>>)
         => /\ reply'.text = "no records recognized"
            /\ reply'.text # "error while processing the file"
            /\ UNCHANGED <<duties, recipients, config>>]_vars

\* C3 witness: a zero-record upload has been answered while a roster imported
\* earlier is still stored.
C3_Witness ==
    /\ reply.text = "no records recognized"
    /\ up.stage = "idle"
    /\ duties # <<>>

\* C4: every roster read returns what it would return on the committed roster
\* (the complete old one or the complete new one), never the state between an
\* import's delete-all and its insert-all.
C4_NoPartialRead ==
    [][/\ (\E u \in Users : Administrator(u) /\ (CmdExport(u) \/ CmdAllDuties(u)))
              => reply'.n = Len(committed.rows)
       /\ (\E u \in Users : Administrator(u) /\ CmdDutyToday(u))
              => reply'.n = Len(GetDutiesForDate(committed.rows, Today))
       /\ (cyc.stage = "idle" /\ cyc'.stage # "idle" /\ ~cyc'.skipped)
              => cyc'.text.names = GetDutiesForDate(committed.rows, Today)]_vars

\* A step in which user u invokes one of the administrator-only operations:
\* subscribe, unsubscribe, set-time, set-month, send-now, export,
\* list-subscribers, clear-roster, upload.
GatedStep(u) ==
    \/ \E c \in Chats : CmdSubscribe(u, c) \/ CmdUnsubscribe(u, c)
    \/ \E a \in TimeArgs : CmdSetTime(u, a)
    \/ \E a \in MonthArgs : CmdSetMonth(u, a)
    \/ CmdSendNow(u)
    \/ CmdExport(u)
    \/ CmdSubscribers(u)
    \/ CmdClearDuties(u)
    \/ \E f \in Files : HandleDocs(u, f)

NonAdminGatedStep == \E u \in Users : ~Administrator(u) /\ GatedStep(u)

\* C5: an administrator-only operation invoked by an identity outside the
\* administrator list changes nothing but the reply: roster, recipients, config
\* and the armed schedule stay as they were, no download is started and no
\* notification cycle is started.
C5_AdminGate ==
    [][NonAdminGatedStep =>
           UNCHANGED <<duties, committed, recipients, config, jobs, armedAt,
                       up, cyc>>]_vars

\* C5 witness: a non-administrator has just been refused while a roster, a
\* recipient and a send time set by the administrator are in place.
C5_Witness ==
    /\ reply.text = RefusalText(rev, "upload")
    /\ duties # <<>>
    /\ recipients # {}
    /\ config.send_time = T_1030

\* C6: within one revision every administrator-only operation invoked by a
\* non-administrator is answered with the same refusal, the one /subscribe
\* gives, whether the operation is a command, a button or an upload.
C6_UniformRefusal ==
    [][NonAdminGatedStep => reply'.text = RefusalText(rev, "command")]_vars

\* selected_month is stored as YYYY-MM; today's year-month differs from it.
MonthDiffers(sel, t) == sel # FormatInt(t.y, 4) \o <<"-">> \o FormatInt(t.m, 2)

\* C7: a notification cycle that ran while selected_month was configured and
\* differed from today's year-month has made no delivery attempt and returns
\* zero deliveries or 'skipped' to its caller, whoever started it.
C7_ActiveMonthFilter ==
    [][(cyc.stage = "finished" /\ cyc'.stage = "idle"
            /\ cyc.sel # <<>> /\ MonthDiffers(cyc.sel, cyc.today))
         => /\ cyc.attempts = <<>>
            /\ \/ CycleResult(rev, cyc) = [kind |-> "count", n |-> 0]
               \/ CycleResult(rev, cyc).kind = "skipped"]_vars

\* C8: at most one scheduled notification cycle is started on any one
\* calendar day, whatever set-time commands are given.
C8_OneScheduledCyclePerDay == firedToday <= 1

\* C9: once startup has run, the scheduler holds exactly one daily job, armed
\* at the time of the most recent accepted schedule, and a timer firing is
\* always a firing of that job.
C9_SingleArmedJob ==
    /\ [](Running => /\ Len(jobs) = 1
                     /\ jobs[1].hh = armedAt.hh
                     /\ jobs[1].mm = armedAt.mm)
    /\ [][firedToday' = firedToday + 1
             => /\ cyc'.origin = "timer"
                /\ Minutes(armedAt) <= NowMinutes
                /\ Len(jobs') = 1
                /\ jobs'[1].next = NextDate(Today)]_vars

\* C9 witness: an accepted set-time has replaced the job armed at startup by
\* one at 10:30, and on the following day that single job is the one armed.
C9_Witness ==
    /\ Running
    /\ config.send_time = T_1030
    /\ Len(jobs) = 1
    /\ jobs[1].hh = 10
    /\ jobs[1].mm = 30
    /\ clock.days = 1

\* C10: a cycle that is not skipped attempts delivery once to each of its
\* targets, in order, whichever attempts fail; a failure neither ends the loop
\* early nor escapes the cycle.
C10_DeliveryIsolation ==
    /\ (cyc.stage = "finished" /\ ~cyc.skipped)
           => /\ Len(cyc.attempts) = Len(cyc.targets)
              /\ \A i \in 1..Len(cyc.targets) : cyc.attempts[i].chat = cyc.targets[i]
              /\ \A i, j \in 1..Len(cyc.targets) :
                     cyc.targets[i] = cyc.targets[j] => i = j
              /\ ~cyc.raised
    /\ cyc.stage = "sending"
           => /\ Len(cyc.attempts) < Len(cyc.targets)
              /\ \A i \in 1..Len(cyc.attempts) : cyc.attempts[i].chat = cyc.targets[i]
              /\ ~cyc.raised

\* C10 witness: a cycle with two targets has finished; the first delivery
\* failed and the second was still attempted and succeeded.
C10_Witness ==
    /\ cyc.stage = "finished"
    /\ Len(cyc.targets) = 2
    /\ Len(cyc.attempts) = 2
    /\ ~cyc.attempts[1].ok
    /\ cyc.attempts[2].ok

-----------------------------------------------------------------------------
(* The notifier over a stored roster: imports, subscriptions, the month    *)
(* selection and every way a cycle starts.                                 *)

DutyFiles == {MkFile(".xlsm", "xlsx", <<TableB>>), MkFile(".csv", "csv", <<TableB>>),
              MkFile(".xlsm", "xlsx", <<TableA>>)}

NextDuty ==
    \/ Startup
    \/ \E f \in DutyFiles : HandleDocs(1, f)
    \/ DocDownloaded(TRUE, "none")
    \/ DocAcked("none")
    \/ \E c \in Chats : CmdSubscribe(1, c)
    \/ \E a \in GateMonthArgs : CmdSetMonth(1, a)
    \/ \E u \in Users : CmdSendNow(u)
    \/ \E tk \in Tokens : HandleTrigger(tk)
    \/ \E i \in 1..Len(jobs) : TimerFire(i)
    \/ Tick
    \/ \E ok \in BOOLEAN : CycleSend(ok)
    \/ CycleEnd

SpecDuty == Init /\ [][NextDuty]_vars

\* The step in which a notification cycle starts, whoever starts it.
CycleStarts == cyc.stage = "idle" /\ cyc'.stage # "idle"

\* The chats a list of targets names.
ChatsOf(ts) == {ts[i] : i \in 1..Len(ts)}

\* C11: the targets of a cycle that is not skipped are exactly the registered
\* recipients when there is one, and exactly the administrator list when there
\* is none; while a recipient is registered, an administrator who is not a
\* recipient is no target.
C11_TargetSelection ==
    [][(CycleStarts /\ ~cyc'.skipped)
         => /\ recipients # {} =>
                  /\ ChatsOf(cyc'.targets) = recipients
                  /\ Len(cyc'.targets) = Cardinality(recipients)
                  /\ \A u \in Users :
                         (Administrator(u) /\ u \notin recipients)
                             => u \notin ChatsOf(cyc'.targets)
            /\ recipients = {} => cyc'.targets = ADMIN_IDS]_vars

\* C11 witness: a cycle is under way whose only target is the registered chat
\* 5; the administrator, chat 1, is not a recipient and is no target.
C11_Witness ==
    /\ cyc.stage = "sending"
    /\ recipients = {5}
    /\ cyc.targets = <<5>>

\* C12: that no roster record matches today suppresses nothing: a cycle that
\* starts on such a date is skipped only by the active-month filter, and
\* otherwise renders the 'no duty' message with today's date, takes the usual
\* targets and, by the time it finishes, has attempted delivery to each.
C12_NoDutyStillSent ==
    /\ [][(CycleStarts /\ GetDutiesForDate(duties, Today) = <<>>)
            => /\ cyc'.skipped => (cyc'.sel # <<>> /\ MonthDiffers(cyc'.sel, Today))
               /\ ~cyc'.skipped =>
                     /\ cyc'.text = [date |-> TextDate(rev, Today), names |-> <<>>]
                     /\ cyc'.targets = (IF recipients = {} THEN ADMIN_IDS
                                        ELSE ListRecipients(recipients))
                     /\ cyc'.stage = "sending"]_vars
    /\ []((cyc.stage = "finished" /\ ~cyc.skipped /\ cyc.text.names = <<>>)
            => /\ Len(cyc.attempts) = Len(cyc.targets)
               /\ \A i \in 1..Len(cyc.targets) : cyc.attempts[i].chat = cyc.targets[i])

\* C12 witness: a roster is stored, none of its records is for today, and a
\* cycle has finished after sending the 'no duty' message to its two targets.
C12_Witness ==
    /\ cyc.stage = "finished"
    /\ ~cyc.skipped
    /\ duties # <<>>
    /\ cyc.text.names = <<>>
    /\ cyc.text.date # <<>>
    /\ Len(cyc.attempts) = 2

\* The number of targets of cycle c whose delivery succeeded.
Delivered(c) == Cardinality({i \in 1..Len(c.attempts) : c.attempts[i].ok})

\* C13: when a cycle started by send-now or by an authenticated /trigger
\* returns, its caller reports the count of that cycle: the number of targets
\* whose delivery succeeded, between 0 and the number of targets.
C13_ReportsDeliveredCount ==
    [][(cyc.stage = "finished" /\ cyc'.stage = "idle"
            /\ cyc.origin \in {"send_now", "trigger"})
         => /\ CycleResult(rev, cyc) = [kind |-> "count", n |-> Delivered(cyc)]
            /\ reply' = Reply("sent to n recipients", Delivered(cyc))
            /\ Delivered(cyc) <= Len(cyc.targets)]_vars

-----------------------------------------------------------------------------
(* The administrator's settings: every set-time and set-month argument,    *)
(* with subscriptions, the clock and the timer around them.                *)

NextSettings ==
    \/ Startup
    \/ \E a \in TimeArgs : CmdSetTime(1, a)
    \/ \E a \in MonthArgs : CmdSetMonth(1, a)
    \/ CmdSubscribe(1, 5)
    \/ \E i \in 1..Len(jobs) : TimerFire(i)
    \/ Tick
    \/ \E ok \in BOOLEAN : CycleSend(ok)
    \/ CycleEnd

SpecSettings == Init /\ [][NextSettings]_vars

\* A piece of an argument that is an unsigned decimal number.
IsNumber(s) == s # <<>> /\ AllDigits(s)

\* A set-time argument list that is missing its argument, or whose argument is
\* not hour:minute with the hour in 0..23 and the minute in 0..59.
MalformedTime(args) ==
    \/ args = <<>>
    \/ LET ps == Split(args[1], ":")
       IN  ~(/\ Len(ps) = 2
             /\ IsNumber(ps[1]) /\ IsNumber(ps[2])
             /\ DigitsVal(ps[1]) \in 0..23
             /\ DigitsVal(ps[2]) \in 0..59)

\* A set-month argument list that is missing its argument, or whose argument
\* is not year-month with the month in 1..12.
MalformedMonth(args) ==
    \/ args = <<>>
    \/ LET ps == Split(args[1], "-")
       IN  ~(/\ Len(ps) = 2
             /\ IsNumber(ps[1]) /\ IsNumber(ps[2])
             /\ DigitsVal(ps[2]) \in 1..12)

\* C14: a malformed set-time or set-month from an administrator is answered
\* with the usage or the format reply of its command, and config, the armed
\* schedule, the roster and the recipients stay as they were.
C14_MalformedInputMutatesNothing ==
    [][/\ (\E u \in Users, a \in TimeArgs :
               Administrator(u) /\ MalformedTime(a) /\ CmdSetTime(u, a))
           => /\ reply'.text \in {"usage: /set_time HH:MM", "wrong time format"}
              /\ UNCHANGED <<config, jobs, armedAt, duties, committed, recipients>>
       /\ (\E u \in Users, a \in MonthArgs :
               Administrator(u) /\ MalformedMonth(a) /\ CmdSetMonth(u, a))
           => /\ reply'.text \in {"usage: /set_month YYYY-MM", "wrong month format"}
              /\ UNCHANGED <<config, jobs, armedAt, duties, committed, recipients>>]_vars

\* C14 witness: a malformed set-month has just been rejected while a send
\* time, a month and a recipient set earlier are still in place.
C14_Witness ==
    /\ reply.text = "wrong month format"
    /\ config.send_time = T_1030
    /\ config.selected_month = M_2024_01
    /\ recipients # {}
    /\ Len(jobs) = 1

\* C15: a /trigger request with no X-Auth-Token header, or with one that is
\* not the expected token, gets the one 401 response and starts no cycle:
\* nothing is read from the roster and nothing is sent; the expected token
\* here is the default the code falls back to when none is configured.
C15_TriggerRefused ==
    [][(\E tk \in {"absent", "wrong"} : HandleTrigger(tk))
         => /\ reply' = Reply("401 Unauthorized", 0)
            /\ UNCHANGED <<cyc, duties, committed, recipients, config, jobs>>]_vars

\* C15 witness: a request has just been refused with 401 while recipients
\* are registered and no cycle is running.
C15_Witness ==
    /\ rev = "main"
    /\ reply = Reply("401 Unauthorized", 0)
    /\ cyc.stage = "idle"
    /\ recipients = {1, 5}

\* C16: recipients are a set that only subscribe and unsubscribe change.
\* Subscribing a recipient and unsubscribing a non-recipient change nothing;
\* subscribing a non-recipient adds exactly that chat and unsubscribing a
\* recipient removes exactly that chat, so subscribe followed by unsubscribe
\* of a chat that was not a recipient restores the prior set; no step other
\* than an unsubscribe ever removes a recipient.
C16_RecipientsSetAlgebra ==
    /\ [](\A c \in Chats :
              /\ AddRecipient(AddRecipient(recipients, c), c) = AddRecipient(recipients, c)
              /\ c \notin recipients
                    => RemoveRecipient(AddRecipient(recipients, c), c) = recipients)
    /\ [][/\ \A c \in Chats :
                /\ (\E u \in Users : Administrator(u) /\ CmdSubscribe(u, c))
                      => recipients' = recipients \cup {c}
                /\ (\E u \in Users : Administrator(u) /\ CmdUnsubscribe(u, c))
                      => recipients' = recipients \ {c}
          /\ (~ \E u \in Users, c \in Chats : CmdUnsubscribe(u, c))
                => recipients \subseteq recipients']_vars

\* C16 as stated: subscribe followed by unsubscribe of the same chat restores
\* the prior set, whatever the prior set was.
C16_SubscribeUnsubscribeRestores ==
    \A c \in Chats : RemoveRecipient(AddRecipient(recipients, c), c) = recipients

\* C16 witness: after both chats were subscribed, chat 1 was unsubscribed and
\* chat 5 is still a recipient, with an imported roster in place.
C16_Witness ==
    /\ reply.text = "unsubscribed"
    /\ recipients = {5}
    /\ duties # <<>>

-----------------------------------------------------------------------------
(* The importers on their own: more tables, uploaded by the administrator  *)
(* on either day of the clock.                                             *)

D_Slash_0131 == <<"3", "1", "/", "0", "1", "/", "2", "0", "2", "4">>
D_Dot_0201 == <<"0", "1", ".", "0", "2", ".", "2", "0", "2", "4">>
D_Slash_0201 == <<"0", "1", "/", "0", "2", "/", "2", "0", "2", "4">>
D_Feb30 == <<"3", "0", ".", "0", "2", ".", "2", "0", "2", "4">>
D_Bare_0 == <<"0">>
D_Bare_15 == <<"1", "5">>
D_Bare_30 == <<"3", "0">>
D_Bare_31 == <<"3", "1">>
D_Bare_32 == <<"3", "2">>
N_Blank == <<" ", " ">>
N_Padded == <<" ", "B", "o", "b", " ">>

Table(hdr, rows) == [hdr |-> hdr, rows |-> rows]

Row(d, n) == <<StrCell(d), StrCell(n)>>

PlainHeader == <<"date", "name">>

TableDup == Table(PlainHeader, <<Row(D_Iso_0131, N_Ann), Row(D_Iso_0131, N_Ann),
                                 Row(D_Iso_0131, N_Bob)>>)
TableBlank == Table(PlainHeader, <<Row(D_Iso_0131, N_Blank), Row(D_Dot_0131, N_Ann)>>)
TablePadded == Table(PlainHeader, << <<StrCell(D_Iso_0131), NanCell>>,
                                     Row(D_Slash_0131, N_Padded)>>)
TableBadDate == Table(PlainHeader, << <<NanCell, StrCell(N_Ann)>>, Row(D_Feb30, N_Bob),
                                      Row(D_Iso_0201, N_Cy)>>)
TableLongRow == Table(PlainHeader, <<Row(D_Iso_0131, N_Ann),
                                     <<StrCell(D_Iso_0131), StrCell(N_Bob), StrCell(N_Cy)>>,
                                     Row(D_Iso_0201, N_Cy)>>)
TableIso == Table(PlainHeader, <<Row(D_Iso_0201, N_Ann)>>)
TableDot == Table(PlainHeader, <<Row(D_Dot_0201, N_Ann)>>)
TableSlash == Table(PlainHeader, <<Row(D_Slash_0201, N_Ann)>>)
TableNative == Table(PlainHeader, << <<DateCell(MkDate(2024, 2, 1)), StrCell(N_Ann)>> >>)
TableNoSynonym == Table(<<"when", "who">>, <<Row(D_Iso_0131, N_Ann), Row(D_Soon, N_Bob)>>)
TableOneColumn == Table(<<"when">>, << <<StrCell(D_Iso_0131)>> >>)
TableDateSecond == Table(<<"who", "date">>, <<Row(N_Ann, D_Iso_0131)>>)
TableNonStr == Table(<<NonStrLabel, "who">>, <<Row(D_Iso_0131, N_Ann)>>)
TableBare == Table(PlainHeader, <<Row(D_Bare_0, N_Ann), Row(D_Bare_15, N_Bob),
                                  Row(D_Bare_32, N_Cy)>>)
TableBareEnd == Table(PlainHeader, <<Row(D_Bare_30, N_Ann), Row(D_Bare_31, N_Bob)>>)

\* What both importers can be given, and what only a workbook can hold.
TextTables == {TableA, TableDup, TableBlank, TablePadded, TableBadDate, TableLongRow,
               TableIso, TableDot, TableSlash, TableNoSynonym, TableOneColumn,
               TableDateSecond, TableBare, TableBareEnd}
WorkbookTables == TextTables \cup {TableNative, TableNonStr}

ParseFiles == {MkFile(".xlsm", "xlsx", <<t>>) : t \in WorkbookTables}
                  \cup {MkFile(".csv", "csv", <<t>>) : t \in TextTables}

NextParse ==
    \/ Startup
    \/ \E f \in ParseFiles : HandleDocs(1, f)
    \/ DocDownloaded(TRUE, "none")
    \/ DocAcked("none")
    \/ \E i \in 1..Len(jobs) : TimerFire(i)
    \/ Tick
    \/ CycleSend(TRUE)
    \/ CycleEnd

SpecParse == Init /\ [][NextParse]_vars

\* What the importer of revision r makes of a date cell.
DateOf(r, cell) ==
    IF r = "Kolbasa" THEN try_parse_date(cell)
    ELSE IF cell.t = "str" THEN CsvDate(Strip(cell.s))
    ELSE NoDate

\* A name cell that is present and not empty once trimmed.
ValidName(cell) == cell.t = "str" /\ Strip(cell.s) # <<>>

\* The records of the valid rows of a table whose first column is the date and
\* whose second is the name, in source order.
RECURSIVE ValidRows(_, _)
ValidRows(r, rows) ==
    IF rows = <<>> THEN <<>>
    ELSE LET row == Head(rows)
             d   == DateOf(r, row[1])
         IN  (IF d.ok /\ ValidName(row[2])
              THEN <<[date |-> IsoFormat(d.v), name |-> Strip(row[2].s)]>>
              ELSE <<>>) \o ValidRows(r, Tail(rows))

\* The upload in progress holds a table with the plain date and name header.
PlainUpload == up.file.sheets # <<>> /\ up.file.sheets[1].hdr = PlainHeader

\* C17: the importer does not raise on a table of rows, and its output is the
\* records of the valid rows in source order, duplicates and same-date rows
\* kept, rows with an unparseable date or a missing or blank name dropped; no
\* record has an empty name; a non-empty output becomes the roster.
C17_ValidRowsInOrder ==
    [][(ImporterStep /\ PlainUpload)
         => LET out == ParseUpload(rev, up.file)
            IN  /\ out.ok
                /\ out.records = ValidRows(rev, up.file.sheets[1].rows)
                /\ \A i \in 1..Len(out.records) : out.records[i].name # <<>>
                /\ out.records # <<>> => duties' = out.records]_vars

\* The three spellings of a calendar date.
SpellIso(t) == FormatInt(t.y, 4) \o <<"-">> \o FormatInt(t.m, 2) \o <<"-">> \o FormatInt(t.d, 2)
SpellDot(t) == FormatInt(t.d, 2) \o <<".">> \o FormatInt(t.m, 2) \o <<".">> \o FormatInt(t.y, 4)
SpellSlash(t) == FormatInt(t.d, 2) \o <<"/">> \o FormatInt(t.m, 2) \o <<"/">> \o FormatInt(t.y, 4)

\* Valid calendar dates the parsers are tried on: month ends, a leap day, a
\* day that reads differently with day and month swapped, the first year.
SampleDates == {MkDate(2024, 1, 31), MkDate(2024, 2, 1), MkDate(2024, 2, 29),
                MkDate(2023, 12, 31), MkDate(1999, 7, 4), MkDate(1, 1, 1)}

SpelledTables == {TableIso, TableDot, TableSlash}

\* An upload of one of the three spelled tables is in progress.
SpelledUpload == up.stage # "idle" /\ up.file.sheets[1] \in SpelledTables

\* C18: where the importer is at work on a spelled table, each of the three
\* spellings of every sample date is accepted by the date parser of the
\* running revision and gives that date, so all three give the same canonical
\* ISO text; uploading the same row in any of the three spellings stores the
\* same record.
C18_FormatInvariance ==
    /\ [](SpelledUpload => \A t \in SampleDates :
              \A sp \in {SpellIso(t), SpellDot(t), SpellSlash(t)} :
                  /\ DateOf(rev, StrCell(sp)).ok
                  /\ IsoFormat(DateOf(rev, StrCell(sp)).v) = SpellIso(t))
    /\ [][(SpelledUpload /\ ImporterStep)
            => duties' = <<[date |-> D_Iso_0201, name |-> N_Ann]>>]_vars

\* C18 witness: the row spelled with slashes is being uploaded while the
\* roster already holds the record another spelling of it produced.
C18_Witness ==
    /\ up.stage # "idle"
    /\ up.file.sheets = <<TableSlash>>
    /\ duties = <<[date |-> D_Iso_0201, name |-> N_Ann]>>

\* No column label of the header contains a date synonym or a name synonym.
Unmatched(hdr) ==
    \A i \in 1..Len(hdr) : hdr[i] \notin DATE_HEADERS_K \cup NAME_HEADERS_K

\* C19: for a table none of whose headers contains a synonym, the importer
\* does not raise, reads dates from the first column and names from the
\* second, and yields no record when the table has a single column.
C19_ColumnFallback ==
    [][(ImporterStep /\ up.file.sheets # <<>> /\ Unmatched(up.file.sheets[1].hdr))
         => LET out == ParseUpload(rev, up.file)
                tbl == up.file.sheets[1]
            IN  /\ out.ok
                /\ out.records = (IF Len(tbl.hdr) >= 2 THEN ValidRows(rev, tbl.rows)
                                  ELSE <<>>)]_vars

BareTables == {TableBare, TableBareEnd}

\* The records of a table whose date cells are bare day numbers, on day t:
\* (t's year, t's month, d) where that is a calendar date, nothing otherwise.
RECURSIVE BareRows(_, _)
BareRows(rows, t) ==
    IF rows = <<>> THEN <<>>
    ELSE LET row == Head(rows)
             d   == DigitsVal(row[1].s)
         IN  (IF d >= 1 /\ d <= DaysIn(t.y, t.m)
              THEN <<[date |-> IsoFormat(MkDate(t.y, t.m, d)), name |-> row[2].s]>>
              ELSE <<>>) \o BareRows(Tail(rows), t)

\* C20: a row whose date cell is a bare integer d is imported as day d of the
\* current year and month when that is a calendar date, and dropped when it is
\* not (d = 0, or d beyond the last day of the current month).
C20_BareDayOfMonth ==
    [][(ImporterStep /\ up.file.sheets # <<>> /\ up.file.sheets[1] \in BareTables)
         => ParseUpload(rev, up.file).records = BareRows(up.file.sheets[1].rows, Today)]_vars

-----------------------------------------------------------------------------
(* The roster readers: imports of ordered and unordered tables, clear,     *)
(* export and the listing.                                                 *)

TableUnsorted == Table(PlainHeader, <<Row(D_Iso_0201, N_Cy), Row(D_Iso_0131, N_Ann),
                                      Row(D_Dot_0201, N_Bob), Row(D_Iso_0131, N_Ann)>>)

ExportFiles == {MkFile(".xlsm", "xlsx", <<t>>) : t \in {TableUnsorted, TableA, TableB}}
                   \cup {MkFile(".csv", "csv", <<t>>) : t \in {TableUnsorted, TableA, TableB}}

NextExport ==
    \/ Startup
    \/ \E f \in ExportFiles : HandleDocs(1, f)
    \/ \E ok \in BOOLEAN : DocDownloaded(ok, "none")
    \/ DocAcked("none")
    \/ \E u \in Users : CmdExport(u)
    \/ \E u \in Users : CmdAllDuties(u)
    \/ \E u \in Users : CmdClearDuties(u)
    \/ Tick

SpecExport == Init /\ [][NextExport]_vars

\* The calendar day a stored ISO date text denotes, as one number.
DateKey(iso) ==
    LET ps == Split(iso, "-")
    IN  10000 * DigitsVal(ps[1]) + 100 * DigitsVal(ps[2]) + DigitsVal(ps[3])

\* How often record r occurs in rows.
Occurrences(r, rows) == Cardinality({i \in 1..Len(rows) : rows[i] = r})

\* out holds each record of rows as often as rows does, and nothing else.
SameRecords(out, rows) ==
    /\ Len(out) = Len(rows)
    /\ \A i \in 1..Len(rows) : Occurrences(rows[i], out) = Occurrences(rows[i], rows)

\* C21: what export and the listing read is one row per stored record, none
\* missing and none added, in non-decreasing order of date, and the reply of
\* either command carries exactly that many rows.
C21_ExportOrdered ==
    /\ [](LET out == GetAllDuties(duties)
          IN  /\ SameRecords(out, duties)
              /\ \A i \in 1..(Len(out) - 1) : DateKey(out[i].date) <= DateKey(out[i + 1].date))
    /\ [][(\E u \in Users : Administrator(u) /\ (CmdExport(u) \/ CmdAllDuties(u)))
            => reply'.n = Len(duties)]_vars

\* C21 witness: the roster is stored out of date order, with a duplicate, and
\* the export or the listing has just returned its four rows.
C21_Witness ==
    /\ reply.text \in {"export document", "all duties"}
    /\ reply.n = 4
    /\ Len(duties) = 4
    /\ duties[1].date = D_Iso_0201
    /\ duties[2].date = D_Iso_0131

-----------------------------------------------------------------------------
(* The process dies and is started again.  The database file keeps roster, *)
(* recipients and config; the scheduler's jobs and the handlers in flight  *)
(* are lost, and on_startup runs anew.                                     *)

Crash ==
    /\ Running
    /\ phase' = "boot"
    /\ jobs' = <<>>
    /\ up' = IdleUpload
    /\ cyc' = IdleCycle
    /\ UNCHANGED <<rev, duties, recipients, config, clock, reply, committed,
                   firedToday, armedAt>>

\* The outcomes of the storage calls of an import, the death of the process
\* between them included.
CrashFaults == Faults \cup {"crash"}

CrashFiles == {MkFile(".xlsm", "xlsx", <<t>>) : t \in {TableA, TableB, TableDup}}
                  \cup {MkFile(".csv", "csv", <<t>>) : t \in {TableA, TableB, TableDup}}

NextCrash ==
    \/ Startup
    \/ \E f \in CrashFiles : HandleDocs(1, f)
    \/ \E ok \in BOOLEAN, ft \in CrashFaults : DocDownloaded(ok, ft)
    \/ \E ft \in CrashFaults : DocAcked(ft)
    \/ \E u \in Users : CmdClearDuties(u)
    \/ Crash

SpecCrash == Init /\ [][NextCrash]_vars

\* C22: in every state, a crash inside an import included, the roster is
\* empty or is the complete record list of one import, the latest one that
\* succeeded: never records of two imports, never part of one.
C22_RosterEmptyOrWhole ==
    \/ duties = <<>>
    \/ /\ duties = committed.rows
       /\ \E f \in CrashFiles : /\ ParseUpload(rev, f).ok
                                /\ duties = ParseUpload(rev, f).records

\* C22 witness: the process died inside an import, after the 'file received'
\* reply: the roster of the earlier successful import is gone and the roster
\* is empty.
C22_Witness ==
    /\ phase = "boot"
    /\ reply.text = "file received"
    /\ committed.by = "import"
    /\ committed.rows # <<>>
    /\ duties = <<>>

-----------------------------------------------------------------------------
(* A cycle in progress while the roster, the recipients and the selected   *)
(* month change under it.                                                  *)

SnapshotFiles == {MkFile(".xlsm", "xlsx", <<TableA>>), MkFile(".csv", "csv", <<TableB>>)}

NextSnapshot ==
    \/ Startup
    \/ \E f \in SnapshotFiles : HandleDocs(1, f)
    \/ DocDownloaded(TRUE, "none")
    \/ DocAcked("none")
    \/ \E c \in Chats : CmdSubscribe(1, c)
    \/ \E c \in Chats : CmdUnsubscribe(1, c)
    \/ CmdClearDuties(1)
    \/ \E a \in GateMonthArgs : CmdSetMonth(1, a)
    \/ CmdSendNow(1)
    \/ \E i \in 1..Len(jobs) : TimerFire(i)
    \/ Tick
    \/ \E ok \in BOOLEAN : CycleSend(ok)
    \/ CycleEnd

SpecSnapshot == Init /\ [][NextSnapshot]_vars

\* C23: a cycle that is not skipped computes its text and its targets once,
\* from the state at its start; every step taken while it is sending, its own
\* deliveries and the imports, clears, subscriptions and month selections in
\* between, leaves them as they were, and each delivery goes to the next
\* target of that list.
C23_CycleSnapshot ==
    /\ [][CycleStarts /\ ~cyc'.skipped
            => /\ cyc'.text = Render(rev, Today, GetDutiesForDate(duties, Today))
               /\ cyc'.targets = Targets(recipients)]_vars
    /\ [][cyc.stage = "sending" /\ cyc'.stage # "idle"
            => /\ cyc'.text = cyc.text
               /\ cyc'.targets = cyc.targets
               /\ \A k \in 1..Len(cyc'.attempts) : cyc'.attempts[k].chat = cyc.targets[k]]_vars

\* C23 witness: a cycle has delivered to its first target and has another to
\* go, and by now the roster, the recipients and the selected month all differ
\* from what the cycle read at its start.
C23_Witness ==
    /\ cyc.stage = "sending"
    /\ Len(cyc.attempts) = 1
    /\ cyc.targets # Targets(recipients)
    /\ cyc.text # Render(rev, cyc.today, GetDutiesForDate(duties, cyc.today))
    /\ cyc.sel # GetConfig("selected_month")

-----------------------------------------------------------------------------
\* C24: whatever value an accepted set-month has stored, a cycle that read it
\* makes a delivery attempt only if today's year and month are the stored year
\* and month.
C24_StoredMonthFilters ==
    (rev = "Kolbasa" /\ cyc.sel # <<>> /\ cyc.attempts # <<>>)
        => LET p == PyIntPair(cyc.sel, "-")
           IN  p.ok /\ p.a = cyc.today.y /\ p.b = cyc.today.m

\* The month stored in selected_month lies before the month of day t.
MonthOver(sel, t) ==
    LET p == PyIntPair(sel, "-")
    IN  p.ok /\ (p.a < t.y \/ (p.a = t.y /\ p.b < t.m))

\* C25: once selected_month is set no step unsets it, and a scheduled cycle
\* that starts when the stored month is over is skipped: it has no text, no
\* targets and makes no delivery.
C25_MonthStaysSet ==
    /\ [][config.selected_month # <<>> => config'.selected_month # <<>>]_vars
    /\ [][(CycleStarts /\ cyc'.origin = "timer" /\ rev = "Kolbasa"
             /\ config.selected_month # <<>>
             /\ MonthOver(config.selected_month, Today))
            => cyc'.skipped /\ cyc'.targets = <<>>]_vars

-----------------------------------------------------------------------------
(* The schedule across restarts.                                           *)

NextRestart ==
    \/ Startup
    \/ \E a \in TimeArgs : CmdSetTime(1, a)
    \/ Crash
    \/ \E i \in 1..Len(jobs) : TimerFire(i)
    \/ Tick
    \/ \E ok \in BOOLEAN : CycleSend(ok)
    \/ CycleEnd

SpecRestart == Init /\ [][NextRestart]_vars

\* C26: while the bot runs, config send_time is a value schedule_daily parses
\* and it denotes the hour and minute of the one armed job; a start that finds
\* a stored send_time keeps it and arms the job at the time accepted last, not
\* at the default.
C26_StoredTimeIsArmed ==
    /\ [](Running
            => /\ config.send_time # <<>>
               /\ ScheduleDaily(<<>>, config, config.send_time).ok
               /\ Len(jobs) = 1
               /\ jobs[1].hh = PyIntPair(config.send_time, ":").a
               /\ jobs[1].mm = PyIntPair(config.send_time, ":").b)
    /\ [][(phase = "boot" /\ phase' = "running" /\ config.send_time # <<>>)
            => /\ config'.send_time = config.send_time
               /\ Len(jobs') = 1
               /\ jobs'[1].hh = armedAt.hh
               /\ jobs'[1].mm = armedAt.mm]_vars

\* C26 witness: the process went down after '/set_time 10:30' was accepted
\* over the default 09:00; the stored value is what the next start reads.
C26_Witness ==
    /\ phase = "boot"
    /\ jobs = <<>>
    /\ config.send_time = T_1030
    /\ armedAt = [hh |-> 10, mm |-> 30]
    /\ DEFAULT_SEND_TIME # T_1030

-----------------------------------------------------------------------------
(* What each administrator operation writes.  The persistent state is the  *)
(* database: roster, recipients, config.  Time passes from midnight to     *)
(* 09:00, when the job armed at startup is due.                            *)

FrameFiles == {MkFile(".xlsm", "xlsx", <<TableA>>), MkFile(".csv", "csv", <<TableA>>)}

NextFrame ==
    \/ Startup
    \/ \E f \in FrameFiles : HandleDocs(1, f)
    \/ DocDownloaded(TRUE, "none")
    \/ DocAcked("none")
    \/ CmdClearDuties(1)
    \/ CmdSetTime(1, <<T_1030>>)
    \/ CmdSetMonth(1, <<M_2024_01>>)
    \/ \E c \in Chats : CmdSubscribe(1, c)
    \/ CmdUnsubscribe(1, 5)
    \/ CmdSendNow(1)
    \/ HandleTrigger(ExpectedToken)
    \/ \E i \in 1..Len(jobs) : TimerFire(i)
    \/ CmdExport(1)
    \/ CmdAllDuties(1)
    \/ CmdSubscribers(1)
    \/ clock.days = 0 /\ clock.pos = 1 /\ Tick
    \/ CycleSend(TRUE)
    \/ CycleEnd

SpecFrame == Init /\ [][NextFrame]_vars

\* The step in which an import completes: the importer ran and the bot
\* answered with the number of records stored.
ImportCompletes ==
    /\ DocAcked("none") \/ DocDownloaded(TRUE, "none")
    /\ reply'.text = "imported n records"

\* C27: a completed import or clear-roster writes only the roster; set-time
\* only config send_time and the armed job; set-month only config
\* selected_month; subscribe and unsubscribe touch at most the membership of
\* the chat of the command; send-now, /trigger, a timer firing, the deliveries
\* of a cycle, export and the listing commands write nothing persistent.
C27_Frame ==
    /\ [][(ImportCompletes \/ CmdClearDuties(1))
            => UNCHANGED <<recipients, config, jobs>>]_vars
    /\ [][CmdSetTime(1, <<T_1030>>)
            => /\ UNCHANGED <<duties, recipients>>
               /\ config'.selected_month = config.selected_month]_vars
    /\ [][CmdSetMonth(1, <<M_2024_01>>)
            => /\ UNCHANGED <<duties, recipients, jobs>>
               /\ config'.send_time = config.send_time]_vars
    /\ [][\A c \in Chats :
             (CmdSubscribe(1, c) \/ CmdUnsubscribe(1, c))
                => /\ UNCHANGED <<duties, config, jobs>>
                   /\ recipients' \ {c} = recipients \ {c}]_vars
    /\ [][(\/ CmdSendNow(1)
           \/ HandleTrigger(ExpectedToken)
           \/ \E i \in 1..Len(jobs) : TimerFire(i)
           \/ CycleSend(TRUE)
           \/ CycleEnd
           \/ CmdExport(1)
           \/ CmdAllDuties(1)
           \/ CmdSubscribers(1))
            => UNCHANGED <<duties, recipients, config>>]_vars

\* C27 witness: set-month was the last command, after an import, a
\* subscription of chats 1 and 5 and a set-time to 10:30, and what those wrote is
\* all still there.
C27_Witness ==
    /\ reply.text = "month set"
    /\ config.selected_month = M_2024_01
    /\ config.send_time = T_1030
    /\ recipients = {1, 5}
    /\ duties # <<>>
    /\ Len(jobs) = 1
    /\ jobs[1].hh = 10

====
